---- MODULE Spec2Model ----
(***************************************************************************)
(* Model of manage.py: the token scan of parse_actions, its subsumption    *)
(* post-pass, and the sequential execution of the resolved actions by      *)
(* execute_actions through the clean / configure / build / run drivers.    *)
(***************************************************************************)
EXTENDS Integers, Sequences, FiniteSets, TLC

\* ------------------------------------------------------------------ bounds
\* longest token sequence given on the command line
MaxLen == 3

\* most directory removals that fail during one execution
MaxRemoveFailures == 2

\* ------------------------------------------------------------ the kind table
\* keys of action_map; each key owns one instance for the whole parse
ActionMapKeys ==
  {"clean", "clean-debug", "clean-profile", "clean-release", "clean-all",
   "build", "build-all", "debug", "profile", "release",
   "run", "run-debug", "run-profile", "run-release"}

\* argv tokens that are not keys of action_map
OtherTokens == {"--flag"}

Tokens == ActionMapKeys \cup OtherTokens

None == "None"

\* variant: an unknown command falls back to the build entry
ActionMapGetDefault(command) ==
  IF command \in ActionMapKeys THEN command ELSE "build"

\* action_map.get(command)
ActionMapGet(command) ==
  IF command \in ActionMapKeys THEN command ELSE None

\* the class each action_map entry is an instance of
ClassOf(k) ==
  CASE k = "clean"         -> "CleanAction"
    [] k = "clean-debug"   -> "CleanDebugAction"
    [] k = "clean-profile" -> "CleanProfileAction"
    [] k = "clean-release" -> "CleanReleaseAction"
    [] k = "clean-all"     -> "CleanAllAction"
    [] k = "build"         -> "BuildAction"
    [] k = "build-all"     -> "BuildAllAction"
    [] k = "debug"         -> "DebugAction"
    [] k = "profile"       -> "ProfileAction"
    [] k = "release"       -> "ReleaseAction"
    [] OTHER               -> "RunAction"

\* variant: the three profile builds declared as subclasses of BuildAction
BaseOfBuildFamily(cls) ==
  IF cls \in {"CleanDebugAction", "CleanProfileAction", "CleanReleaseAction"}
  THEN "CleanAction"
  ELSE IF cls \in {"DebugAction", "ProfileAction", "ReleaseAction"}
       THEN "BuildAction"
       ELSE "Action"

\* the base class named in each class statement
BaseOf(cls) ==
  IF cls \in {"CleanDebugAction", "CleanProfileAction", "CleanReleaseAction"}
  THEN "CleanAction"
  ELSE "Action"

\* isinstance(action, cls): cls is the class of the instance or an ancestor
IsInstance(k, cls) ==
  \/ ClassOf(k) = cls
  \/ BaseOf(ClassOf(k)) = cls
  \/ cls = "Action"

RunKeys == {k \in ActionMapKeys : IsInstance(k, "RunAction")}

\* RunAction("debug") etc.: the build_type given to each RunAction instance
BuildTypeOf(k) ==
  CASE k = "run"         -> "debug"
    [] k = "run-debug"   -> "debug"
    [] k = "run-profile" -> "profile"
    [] k = "run-release" -> "release"

\* the name property of the instance stored under key k
Name(k) ==
  CASE ClassOf(k) = "CleanAction"        -> "clean"
    [] ClassOf(k) = "CleanDebugAction"   -> "clean-debug"
    [] ClassOf(k) = "CleanProfileAction" -> "clean-profile"
    [] ClassOf(k) = "CleanReleaseAction" -> "clean-release"
    [] ClassOf(k) = "CleanAllAction"     -> "clean-all"
    [] ClassOf(k) = "BuildAction"        -> "build"
    [] ClassOf(k) = "BuildAllAction"     -> "build-all"
    [] ClassOf(k) = "DebugAction"        -> "debug"
    [] ClassOf(k) = "ProfileAction"      -> "profile"
    [] ClassOf(k) = "ReleaseAction"      -> "release"
    [] ClassOf(k) = "RunAction"          -> "run-" \o BuildTypeOf(k)

\* variant: every pair of actions conflicts
ConflictsWithAlways(existing_action, action) == TRUE

\* Action.conflicts_with: no subclass overrides it
ConflictsWith(existing_action, action) == FALSE

\* ------------------------------------------------------------ parse_actions
\* variant: the list starts with an action already in it
SeededActions == <<"build">>

\* actions = []
EmptyActions == << >>

\* RunAction.__init__: every RunAction instance starts with execution_params = []
InitialParams == [k \in RunKeys |-> << >>]

\* the locals of parse_actions before the loop
ParseStart ==
  [actions            |-> EmptyActions,
   execution_params   |-> InitialParams,
   run_action_found   |-> FALSE,
   clean_all_found    |-> FALSE,
   build_all_found    |-> FALSE,
   error              |-> None]

\* variant: the parameter is inserted at the front
PrependParam(params, command) == <<command>> \o params

\* actions[-1].execution_params.append(command)
AppendParam(params, command) == Append(params, command)

\* the branch of the loop body taken while run_action_found is set
CaptureParam(st, command) ==
  IF Len(st.actions) = 0
  THEN [st EXCEPT !.error = "IndexError"]
  ELSE LET last == st.actions[Len(st.actions)] IN
       IF last \notin RunKeys
       THEN [st EXCEPT !.error = "AttributeError"]
       ELSE [st EXCEPT !.execution_params[last] = AppendParam(@, command)]

\* variant: the action is inserted at the front of the list
InsertAction(actions, action) ==
  IF \E n \in 1..Len(actions) : ConflictsWith(actions[n], action)
  THEN actions
  ELSE <<action>> \o actions

\* if not any(existing.conflicts_with(action) ...): actions.append(action)
AppendAction(actions, action) ==
  IF \E n \in 1..Len(actions) : ConflictsWith(actions[n], action)
  THEN actions
  ELSE Append(actions, action)

\* the branch of the loop body that looks the command up in action_map
ResolveCommand(st, command) ==
  LET action == ActionMapGet(command) IN
  IF action = None
  THEN st
  ELSE [st EXCEPT
          !.clean_all_found  = @ \/ IsInstance(action, "CleanAllAction"),
          !.build_all_found  = @ \/ (~IsInstance(action, "CleanAllAction")
                                      /\ IsInstance(action, "BuildAllAction")),
          !.actions          = AppendAction(@, action),
          !.run_action_found = @ \/ IsInstance(action, "RunAction"),
          !.execution_params = IF IsInstance(action, "RunAction")
                               THEN [@ EXCEPT ![action] = << >>]
                               ELSE @]

\* variant: the loop body never tests run_action_found
ScanStepNoRunMode(st, command) == ResolveCommand(st, command)

\* one iteration of `for command in commands`
ScanStep(st, command) ==
  IF st.run_action_found
  THEN CaptureParam(st, command)
  ELSE ResolveCommand(st, command)

\* variant: the clean-all filter keeps every action
KeepCleanActions(actions) == actions

\* actions = [a for a in actions if not isinstance(a, CleanAction)]
RemoveCleanActions(actions) ==
  SelectSeq(actions, LAMBDA a : ~IsInstance(a, "CleanAction"))

\* variant: the build-all filter drops the whole build family
RemoveBuildFamily(actions) ==
  SelectSeq(actions, LAMBDA a : a \notin {"build", "debug", "profile", "release"})

\* actions = [a for a in actions if not isinstance(a, BuildAction)]
RemoveBuildActions(actions) ==
  SelectSeq(actions, LAMBDA a : ~IsInstance(a, "BuildAction"))

\* the two filters after the loop
PostPass(st) ==
  LET a1 == IF st.clean_all_found THEN RemoveCleanActions(st.actions)
            ELSE st.actions
  IN  IF st.build_all_found THEN RemoveBuildActions(a1) ELSE a1

RECURSIVE ScanAll(_, _)
\* the whole loop over a token sequence, started from st
ScanAll(st, cmds) ==
  IF Len(cmds) = 0 \/ st.error # None
  THEN st
  ELSE ScanAll(ScanStep(st, Head(cmds)), Tail(cmds))

\* parse_actions(commands): the returned list with each run action's params
ParseActions(cmds) ==
  LET st == ScanAll(ParseStart, cmds) IN
  [actions |-> PostPass(st), execution_params |-> st.execution_params,
   error |-> st.error]

\* ------------------------------------------------------------------ drivers
Profiles == <<"debug", "profile", "release">>

\* the module-level functions each execute() calls, in order
Body(k) ==
  CASE ClassOf(k) = "CleanAction"        -> <<"clean_debug">>
    [] ClassOf(k) = "CleanAllAction"     -> <<"clean_debug", "clean_profile", "clean_release">>
    [] ClassOf(k) = "CleanDebugAction"   -> <<"clean_debug">>
    [] ClassOf(k) = "CleanProfileAction" -> <<"clean_profile">>
    [] ClassOf(k) = "CleanReleaseAction" -> <<"clean_release">>
    [] ClassOf(k) = "BuildAction"        -> <<"debug">>
    [] ClassOf(k) = "BuildAllAction"     -> <<"debug", "profile", "release">>
    [] ClassOf(k) = "DebugAction"        -> <<"debug">>
    [] ClassOf(k) = "ProfileAction"      -> <<"profile">>
    [] ClassOf(k) = "ReleaseAction"      -> <<"release">>
    [] ClassOf(k) = "RunAction"          -> <<"run">>

\* variant: the profile and release directories are mixed up
DirOfSwapped(f) ==
  CASE f \in {"clean_debug", "debug"}     -> "debug"
    [] f \in {"clean_profile", "profile"} -> "release"
    [] f \in {"clean_release", "release"} -> "profile"

\* the directory a clean_* or build function works on (DEBUG_DIR, PROFILE_DIR, RELEASE_DIR)
DirOf(f) ==
  CASE f \in {"clean_debug", "debug"}     -> "debug"
    [] f \in {"clean_profile", "profile"} -> "profile"
    [] f \in {"clean_release", "release"} -> "release"

\* variant: the build functions go straight to cmake --build
EntryPcSkipConfigure(f) ==
  CASE f \in {"clean_debug", "clean_profile", "clean_release"} -> "clean_directory"
    [] f \in {"debug", "profile", "release"}                   -> "build"
    [] f = "run"                                               -> "run"

\* where control is when function f has just been entered
EntryPc(f) ==
  CASE f \in {"clean_debug", "clean_profile", "clean_release"} -> "clean_directory"
    [] f \in {"debug", "profile", "release"}                   -> "configure"
    [] f = "run"                                               -> "run"

\* what os.remove / os.rmdir can do inside clean_directory
RemoveResults == {"ok", "Exception"}

\* what subprocess.run(..., check=True) can do; an exception of another
\* type is caught nowhere and ends the process with status 1 as well
ProcessResults == {"ok", "CalledProcessError"}

\* sys.exit(1), or an exception nobody catches
SysExit(f) == [pc |-> "exited", fi |-> f]

\* control after the f-th function of execute() of action k has returned
ReturnTo(k, f) ==
  IF f < Len(Body(k))
  THEN [pc |-> EntryPc(Body(k)[f + 1]), fi |-> f + 1]
  ELSE [pc |-> "execute_actions", fi |-> 0]

\* variant: an exception raised while removing is not caught
CleanNextRaising(r, k, f) ==
  IF r = "ok" THEN ReturnTo(k, f) ELSE SysExit(f)

\* clean_directory: every Exception is caught and reported, then it returns
CleanNext(r, k, f) == ReturnTo(k, f)

\* variant: a failed configure is reported and build carries on
ConfigureNextIgnoringFailure(r, k, f) == [pc |-> "build", fi |-> f]

\* configure: CalledProcessError -> sys.exit(1); anything else propagates
ConfigureNext(r, k, f) ==
  IF r = "ok" THEN [pc |-> "build", fi |-> f] ELSE SysExit(f)

\* variant: a failed build is reported and the caller carries on
BuildNextIgnoringFailure(r, k, f) ==
  IF Body(k)[f] = "run" THEN [pc |-> "launch", fi |-> f] ELSE ReturnTo(k, f)

\* build after configure: back to run() when run() asked for the build
BuildNext(r, k, f) ==
  IF r = "ok"
  THEN IF Body(k)[f] = "run" THEN [pc |-> "launch", fi |-> f] ELSE ReturnTo(k, f)
  ELSE SysExit(f)

\* variant: a missing executable is launched without building it
ExistsNextSkipBuild(present, k, f) == [pc |-> "launch", fi |-> f]

\* run: os.path.exists(executable) decides whether the profile is built first
ExistsNext(present, k, f) ==
  IF present THEN [pc |-> "launch", fi |-> f] ELSE [pc |-> "configure", fi |-> f]

\* variant: a failed launch is reported and run() returns normally
LaunchNextIgnoringFailure(r, k, f) == ReturnTo(k, f)

\* run: subprocess.run([executable] + args, check=True)
LaunchNext(r, k, f) ==
  IF r = "ok" THEN ReturnTo(k, f) ELSE SysExit(f)

\* execute_actions: `for action in actions` takes the next list element
NextIndex(i) == i + 1

\* the line printed when a step did not succeed
Diagnostic(op, r) ==
  CASE r = "Exception"          -> "An error occurred during cleaning"
    [] op = "configure"         -> "Configuration failed"
    [] op = "build"             -> "build failed"
    [] op = "launch"            -> "Execution failed"
    [] op = "exists"            -> "Executable not found"

\* -------------------------------------------------------------------- state
VARIABLES
  commands,          \* sys.argv[1:]
  pc,                \* where control is
  idx,               \* tokens consumed by the loop of parse_actions
  actions,           \* the list being built, then the list returned
  execution_params,  \* execution_params of each RunAction instance
  run_action_found, clean_all_found, build_all_found,
  ai,                \* position in `actions` of the action being executed
  fi,                \* position in its execute() body of the call in progress
  calls,             \* history of calls made to the outside, in order
  executed,          \* history of the list positions execute() was called on
  output,            \* result and diagnostic lines printed, in order
  exit_status        \* process exit status, -1 while still running

vars == <<commands, pc, idx, actions, execution_params, run_action_found,
          clean_all_found, build_all_found, ai, fi, calls, executed, output,
          exit_status>>

parseVars == <<actions, execution_params, run_action_found, clean_all_found,
               build_all_found>>

Locals ==
  [actions            |-> actions,
   execution_params   |-> execution_params,
   run_action_found   |-> run_action_found,
   clean_all_found    |-> clean_all_found,
   build_all_found    |-> build_all_found,
   error              |-> None]

TokenSeqs == UNION {[1..n -> Tokens] : n \in 0..MaxLen}

Init ==
  /\ commands \in TokenSeqs
  /\ pc = "start"
  /\ idx = 0
  /\ actions = ParseStart.actions
  /\ execution_params = ParseStart.execution_params
  /\ run_action_found = ParseStart.run_action_found
  /\ clean_all_found = ParseStart.clean_all_found
  /\ build_all_found = ParseStart.build_all_found
  /\ ai = 0
  /\ fi = 0
  /\ calls = << >>
  /\ executed = << >>
  /\ output = << >>
  /\ exit_status = -1

\* the __main__ block: no argument prints the help and exits with 1
Main ==
  /\ pc = "start"
  /\ IF Len(commands) < 1
     THEN /\ pc' = "exited"
          /\ output' = Append(output, [text |-> "Usage", about |-> None, action |-> 0])
          /\ exit_status' = 1
     ELSE /\ pc' = "parse_actions"
          /\ UNCHANGED <<output, exit_status>>
  /\ UNCHANGED <<commands, idx, parseVars, ai, fi, calls, executed>>

\* parse_actions(commands) followed by execute_actions, called as functions
Call ==
  /\ pc = "start"
  /\ pc' = "parse_actions"
  /\ UNCHANGED <<commands, idx, parseVars, ai, fi, calls, executed, output,
                 exit_status>>

\* one iteration of the loop of parse_actions
Scan ==
  /\ pc = "parse_actions"
  /\ idx < Len(commands)
  /\ LET st == ScanStep(Locals, commands[idx + 1]) IN
       /\ actions' = st.actions
       /\ execution_params' = st.execution_params
       /\ run_action_found' = st.run_action_found
       /\ clean_all_found' = st.clean_all_found
       /\ build_all_found' = st.build_all_found
       /\ IF st.error = None
          THEN /\ pc' = "parse_actions"
               /\ UNCHANGED <<output, exit_status>>
          ELSE /\ pc' = "exited"
               /\ output' = Append(output, [text |-> "Traceback", about |-> st.error, action |-> 0])
               /\ exit_status' = 1
  /\ idx' = idx + 1
  /\ UNCHANGED <<commands, ai, fi, calls, executed>>

\* the post-pass and the return of parse_actions
ParseReturn ==
  /\ pc = "parse_actions"
  /\ idx = Len(commands)
  /\ actions' = PostPass(Locals)
  /\ pc' = "execute_actions"
  /\ UNCHANGED <<commands, idx, execution_params, run_action_found,
                 clean_all_found, build_all_found, ai, fi, calls, executed,
                 output, exit_status>>

\* the function in progress and the profile it works on
CurrentFn == Body(actions[ai])[fi]
CurrentProfile ==
  IF CurrentFn = "run" THEN BuildTypeOf(actions[ai]) ELSE DirOf(CurrentFn)

CallRecord(op, r, args) ==
  [op |-> op, profile |-> CurrentProfile, result |-> r, action |-> ai,
   args |-> args]

\* one call to the outside and the control transfer that follows it
Step(op, r, args, next) ==
  /\ calls' = Append(calls, CallRecord(op, r, args))
  /\ pc' = next.pc
  /\ fi' = next.fi
  /\ output' = IF r = "ok"
               THEN IF op = "remove"
                    THEN Append(output, [text |-> "Cleaned", about |-> CurrentProfile, action |-> ai])
                    ELSE output
               ELSE Append(output, [text |-> Diagnostic(op, r), about |-> CurrentProfile,
                                    action |-> ai])
  /\ exit_status' = IF next.pc = "exited" THEN 1 ELSE exit_status
  /\ UNCHANGED <<commands, idx, parseVars, ai, executed>>

\* variant: the loop returns after the first action
HasNextFirstOnly(i) == i < Len(actions) /\ i < 1

\* execute_actions: `for action in actions` has an element left after position i
HasNext(i) == i < Len(actions)

\* execute_actions: the loop header, entering action.execute()
ExecuteActions ==
  /\ pc = "execute_actions"
  /\ IF HasNext(ai)
     THEN /\ ai' = NextIndex(ai)
          /\ fi' = 1
          /\ pc' = EntryPc(Body(actions[NextIndex(ai)])[1])
          /\ executed' = Append(executed, NextIndex(ai))
          /\ UNCHANGED exit_status
     ELSE /\ pc' = "done"
          /\ exit_status' = 0
          /\ UNCHANGED <<ai, fi, executed>>
  /\ UNCHANGED <<commands, idx, parseVars, calls, output>>

\* the removals that have failed so far
RemoveFailures ==
  Cardinality({n \in DOMAIN calls :
     calls[n].op = "remove" /\ calls[n].result # "ok"})

\* clean_directory(directory)
CleanDirectory ==
  /\ pc = "clean_directory"
  /\ \E r \in RemoveResults :
       /\ r # "ok" => RemoveFailures < MaxRemoveFailures
       /\ Step("remove", r, << >>, CleanNext(r, actions[ai], fi))

\* configure(build_dir, build_type, flags), called first by build
Configure ==
  /\ pc = "configure"
  /\ \E r \in ProcessResults :
       Step("configure", r, << >>, ConfigureNext(r, actions[ai], fi))

\* the cmake --build half of build(build_dir, build_type, flags)
Build ==
  /\ pc = "build"
  /\ \E r \in ProcessResults :
       Step("build", r, << >>, BuildNext(r, actions[ai], fi))

\* run(build_type, execution_params) up to the existence test
Run ==
  /\ pc = "run"
  /\ \E present \in BOOLEAN :
       Step("exists", IF present THEN "ok" ELSE "absent", << >>,
            ExistsNext(present, actions[ai], fi))

\* run(build_type, execution_params): the launch of the executable
Launch ==
  /\ pc = "launch"
  /\ \E r \in ProcessResults :
       Step("launch", r, execution_params[actions[ai]],
            LaunchNext(r, actions[ai], fi))

\* the steps of parse_actions alone
ParseNext ==
  \/ Main
  \/ Call
  \/ Scan
  \/ ParseReturn

Next ==
  \/ Main
  \/ Call
  \/ Scan
  \/ ParseReturn
  \/ ExecuteActions
  \/ CleanDirectory
  \/ Configure
  \/ Build
  \/ Run
  \/ Launch

Spec == Init /\ [][Next]_vars

\* the resolver on its own: the tokens are drawn by Init and resolved
SpecParse == Init /\ [][ParseNext]_vars

\* ------------------------------------------------------------- properties
Range(seq) == {seq[n] : n \in DOMAIN seq}

Occurrences(seq, t) == Cardinality({n \in DOMAIN seq : seq[n] = t})

Delete(seq, j) == SubSeq(seq, 1, j - 1) \o SubSeq(seq, j + 1, Len(seq))

\* the token at position j is looked up as a command: no run token precedes it
CommandPosition(cmds, j) == \A n \in 1..(j - 1) : cmds[n] \notin RunKeys

\* parse_actions has returned its list
Returned ==
  \/ pc \in {"execute_actions", "clean_directory", "configure", "build",
             "run", "launch", "done"}
  \/ pc = "exited" /\ ai > 0

\* parse_actions has just returned: `actions` is its result
JustReturned == pc = "execute_actions" /\ ai = 0

\* the names of the returned actions, in list order
Kinds == [n \in DOMAIN actions |-> Name(actions[n])]

CleanTokens == {"clean", "clean-debug", "clean-profile", "clean-release"}

\* C1: a token sequence made of one clean-all, at any position, and any
\* number of clean, clean-debug, clean-profile, clean-release tokens resolves
\* to a list of exactly one action, of kind clean-all.
C1_CleanAllSubsumes ==
  (/\ JustReturned
   /\ Occurrences(commands, "clean-all") = 1
   /\ Range(commands) \subseteq CleanTokens \cup {"clean-all"})
  => Kinds = <<"clean-all">>

C1_Witness ==
  /\ JustReturned
  /\ commands = <<"clean", "clean-all", "clean-release">>
  /\ Kinds = <<"clean-all">>

\* C2: the returned list never holds two actions of the same kind; a kind
\* token repeated in command position yields one action of that kind.
C2_NoDuplicateKind ==
  JustReturned =>
    \A m, n \in DOMAIN actions : m # n => Name(actions[m]) # Name(actions[n])

BuildProfileTokens == {"debug", "profile", "release"}

\* C3: when build-all is named (once) in command position, together with
\* build and any of debug, profile, release, the returned list holds exactly
\* one build-all action, no build action, and every debug, profile and
\* release action named in command position.
C3_BuildAllSubsumesBuildOnly ==
  (/\ JustReturned
   /\ Cardinality({j \in DOMAIN commands :
         commands[j] = "build-all" /\ CommandPosition(commands, j)}) = 1)
  => /\ Occurrences(Kinds, "build-all") = 1
     /\ "build" \notin Range(Kinds)
     /\ \A j \in DOMAIN commands :
          (commands[j] \in BuildProfileTokens /\ CommandPosition(commands, j))
          => commands[j] \in Range(Kinds)

C3_Witness ==
  /\ JustReturned
  /\ commands = <<"build", "debug", "build-all">>
  /\ Kinds = <<"debug", "build-all">>

\* position of the first run token of cmds (Len(cmds) + 1 when there is none)
FirstRun(cmds) ==
  IF \E n \in DOMAIN cmds : cmds[n] \in RunKeys
  THEN CHOOSE n \in DOMAIN cmds :
         cmds[n] \in RunKeys /\ CommandPosition(cmds, n)
  ELSE Len(cmds) + 1

\* the result of resolving the four-token example of the specification
ExampleResult == ParseActions(<<"build", "run-release", "--flag", "clean">>)

\* C4: when the tokens hold a run token, the returned list ends with the run
\* action of the first run token, and its execution parameters are exactly
\* the tokens after that token, in order, known kind names included; so
\* [build, run-release, --flag, clean] gives [build, run-release] with
\* parameters [--flag, clean].
C4_RunCapturesTail ==
  /\ (JustReturned /\ FirstRun(commands) <= Len(commands))
     => LET j == FirstRun(commands) IN
        /\ Len(actions) > 0
        /\ actions[Len(actions)] = commands[j]
        /\ Occurrences(actions, commands[j]) = 1
        /\ execution_params[commands[j]] = SubSeq(commands, j + 1, Len(commands))
  /\ ExampleResult.actions = <<"build", "run-release">>
  /\ ExampleResult.execution_params["run-release"] = <<"--flag", "clean">>

C4_Witness ==
  /\ JustReturned
  /\ commands = <<"run-release", "--flag", "clean">>
  /\ Kinds = <<"run-release">>
  /\ execution_params["run-release"] = <<"--flag", "clean">>

\* the token scan stopped on an exception
ParseError ==
  /\ pc = "exited"
  /\ ai = 0
  /\ Len(output) > 0
  /\ output[Len(output)].text = "Traceback"

EmptyResult == ParseActions(<< >>)

\* C6: an empty token sequence resolves to an empty list, and executing
\* that list makes no call at all: no configure, build, launch or removal.
C6_EmptyTokensNoWork ==
  /\ EmptyResult.actions = << >>
  /\ commands = << >> =>
       /\ calls = << >>
       /\ executed = << >>
       /\ actions = << >>

C6_Witness ==
  /\ commands = << >>
  /\ pc = "done"
  /\ actions = << >>
  /\ calls = << >>

\* the calls made while the action at list position a was executing
CallsOf(a) == SelectSeq(calls, LAMBDA c : c.action = a)

\* execute() of the action at list position a has returned
Finished(a) ==
  \/ a < ai
  \/ a = ai /\ pc = "execute_actions"
  \/ a <= ai /\ pc = "done"

BuildAllPlan ==
  <<[op |-> "configure", profile |-> "debug"],
    [op |-> "build",     profile |-> "debug"],
    [op |-> "configure", profile |-> "profile"],
    [op |-> "build",     profile |-> "profile"],
    [op |-> "configure", profile |-> "release"],
    [op |-> "build",     profile |-> "release"]>>

\* C7: build-all configures and builds debug, then profile, then release;
\* a configure or build step that fails is the last step build-all makes,
\* so no later profile is configured or built.
C7_BuildAllStopsAtFailure ==
  \A a \in DOMAIN actions :
    (Returned /\ actions[a] = "build-all") =>
      LET s == CallsOf(a) IN
      /\ Len(s) <= Len(BuildAllPlan)
      /\ \A n \in DOMAIN s :
           /\ s[n].op = BuildAllPlan[n].op
           /\ s[n].profile = BuildAllPlan[n].profile
           /\ s[n].result # "ok" => n = Len(s)
      /\ Finished(a) => /\ Len(s) = Len(BuildAllPlan)
                        /\ \A n \in DOMAIN s : s[n].result = "ok"

C7_Witness ==
  \E a \in DOMAIN actions :
    /\ Returned
    /\ actions[a] = "build-all"
    /\ pc = "exited"
    /\ Len(CallsOf(a)) = 4
    /\ CallsOf(a)[4].op = "build"
    /\ CallsOf(a)[4].profile = "profile"
    /\ CallsOf(a)[4].result = "CalledProcessError"

\* the failure lines printed by action a about directory d
CleanErrors(a, d) ==
  Cardinality({n \in DOMAIN output :
     /\ output[n].action = a
     /\ output[n].about = d
     /\ output[n].text = "An error occurred during cleaning"})

\* C8: clean-all attempts the removal of debug, profile, release in that
\* order whatever each removal does: after a failed removal the next one is
\* still pending, a finished clean-all has made all three attempts, and each
\* failed directory has exactly one failure line.
C8_CleanAllAttemptsAll ==
  \A a \in DOMAIN actions :
    (Returned /\ actions[a] = "clean-all") =>
      LET s == CallsOf(a) IN
      /\ Len(s) <= Len(Profiles)
      /\ \A n \in DOMAIN s :
           /\ s[n].op = "remove"
           /\ s[n].profile = Profiles[n]
           /\ CleanErrors(a, Profiles[n]) = IF s[n].result = "ok" THEN 0 ELSE 1
      /\ (a = ai /\ Len(s) < Len(Profiles)) =>
           /\ pc = "clean_directory"
           /\ CurrentProfile = Profiles[Len(s) + 1]
      /\ (Finished(a) \/ (a <= ai /\ pc = "exited")) => Len(s) = Len(Profiles)

C8_Witness ==
  \E a \in DOMAIN actions :
    /\ Returned
    /\ actions[a] = "clean-all"
    /\ Len(CallsOf(a)) = 3
    /\ CallsOf(a)[1].result = "Exception"
    /\ CallsOf(a)[3].result = "ok"
    /\ CleanErrors(a, "debug") = 1

\* the last call a successful execute() of the action stored under key k makes
FinalCall(k) ==
  LET f == Body(k)[Len(Body(k))] IN
  CASE EntryPc(f) = "clean_directory" -> [op |-> "remove", profile |-> DirOf(f)]
    [] EntryPc(f) = "configure"       -> [op |-> "build", profile |-> DirOf(f)]
    [] EntryPc(f) = "run"             -> [op |-> "launch", profile |-> BuildTypeOf(k)]

\* the n-th call is the last one made for its action
LastOfAction(n) ==
  n = Len(calls) \/ calls[n + 1].action # calls[n].action

\* the n-th call is the call a successful execute() of its action ends with
IsFinalCall(n) ==
  LET final == FinalCall(actions[calls[n].action]) IN
  /\ calls[n].op = final.op
  /\ calls[n].profile = final.profile
  /\ calls[n].op # "remove" => calls[n].result = "ok"

\* every list position up to `last` has made calls, and the last call of
\* each is the last call of its execute()
AllRanToCompletion(last) ==
  /\ \A a \in 1..last : \E n \in DOMAIN calls : calls[n].action = a
  /\ \A n \in DOMAIN calls :
       (calls[n].action <= last /\ LastOfAction(n)) => IsFinalCall(n)

\* C9: execute_actions calls execute() on list positions 1, 2, 3, ... in that
\* order, never twice; the calls of one action are all made before the first
\* call of the next, which is made only when the action before it has run to
\* completion; and when the loop ends without a fatal failure every position
\* of the list has been executed exactly once, to completion.
C9_SequentialInOrder ==
  /\ \A n \in DOMAIN executed : executed[n] = n
  /\ Len(executed) <= Len(actions)
  /\ \A n \in 1..(Len(calls) - 1) : calls[n].action <= calls[n + 1].action
  /\ \A n \in DOMAIN calls : calls[n].action \in DOMAIN executed
  /\ AllRanToCompletion(ai - 1)
  /\ pc = "done" =>
       /\ Len(executed) = Len(actions)
       /\ AllRanToCompletion(Len(actions))

C9_Witness ==
  /\ pc = "done"
  /\ Len(actions) = 3
  /\ executed = <<1, 2, 3>>
  /\ Kinds = <<"clean-all", "build", "run-debug">>
  /\ Len(calls) = 3 + 2 + 4

FatalOps == {"configure", "build", "launch"}

\* C10: a configure, build or launch step that fails is the last call the
\* tool makes: it exits with status 1 inside the failing action, which is
\* the last one execute() was called on.
C10_FatalFailureAborts ==
  \A n \in DOMAIN calls :
    (calls[n].op \in FatalOps /\ calls[n].result # "ok") =>
      /\ n = Len(calls)
      /\ pc = "exited"
      /\ exit_status = 1
      /\ ai = calls[n].action
      /\ Len(executed) = ai

C10_Witness ==
  /\ pc = "exited"
  /\ Len(calls) > 0
  /\ calls[Len(calls)].op = "configure"
  /\ calls[Len(calls)].result = "CalledProcessError"
  /\ ai < Len(actions)

\* the process has ended
Terminated == pc \in {"done", "exited"}

\* some configure, build or launch step has failed
FatalFailure ==
  \E n \in DOMAIN calls : calls[n].op \in FatalOps /\ calls[n].result # "ok"

\* C11 as stated: the exit status is 0 when no configure, build or launch
\* step failed, whatever the removals did and whatever tokens were unknown,
\* and non-zero otherwise.
C11_ExitStatusByOutcome ==
  Terminated => exit_status = IF FatalFailure THEN 1 ELSE 0

\* C11 as amended: with at least one token the exit status is 0 exactly when
\* no configure, build or launch step failed, and a failed one is the last
\* call made; the script run with no token prints the help and exits with 1
\* before any call.
C11_ExitStatusWithTokens ==
  Terminated =>
    /\ Len(commands) >= 1 =>
         /\ exit_status = IF FatalFailure THEN 1 ELSE 0
         /\ FatalFailure => calls[Len(calls)].result # "ok"
    /\ (Len(commands) = 0 /\ pc = "exited") =>
         /\ exit_status = 1
         /\ calls = << >>
         /\ output = <<[text |-> "Usage", about |-> None, action |-> 0]>>

C11_Witness ==
  /\ pc = "done"
  /\ exit_status = 0
  /\ commands = <<"--flag", "clean-all">>
  /\ calls[1].result = "Exception"
  /\ calls[2].result = "Exception"

\* the n-th call was made by a run action
IsRunCall(n) == actions[calls[n].action] \in RunKeys

\* the m-th and n-th calls belong to the same action and profile
SameRun(m, n) ==
  /\ calls[m].action = calls[n].action
  /\ calls[m].profile = calls[n].profile

\* the shape of the calls made by run actions so far
RunBuildsWhenMissing ==
  \A n \in DOMAIN calls :
    IsRunCall(n) =>
      /\ calls[n].profile = BuildTypeOf(actions[calls[n].action])
      /\ calls[n].op = "exists" =>
           LET then == IF calls[n].result = "absent" THEN "configure" ELSE "launch" IN
           /\ n = 1 \/ calls[n - 1].action # calls[n].action
           /\ IF n = Len(calls)
              THEN pc = then
              ELSE calls[n + 1].op = then /\ SameRun(n, n + 1)
      /\ calls[n].op = "configure" =>
           /\ n > 1
           /\ calls[n - 1].op = "exists"
           /\ calls[n - 1].result = "absent"
           /\ SameRun(n - 1, n)
      /\ calls[n].op = "build" =>
           /\ n > 1
           /\ calls[n - 1].op = "configure"
           /\ calls[n - 1].result = "ok"
           /\ SameRun(n - 1, n)
      /\ calls[n].op = "launch" =>
           /\ n > 1
           /\ calls[n - 1].op \in {"exists", "build"}
           /\ calls[n - 1].result = "ok"
           /\ SameRun(n - 1, n)

\* C12: a run action first tests its executable; when it is absent the
\* configure and build of the same profile come next and must both succeed
\* before the launch; when it is present the launch comes next with no
\* configure or build in between; the launch is never made in any other way.
C12_RunBuildsWhenMissing == [] RunBuildsWhenMissing

C12_Witness ==
  /\ commands = <<"run">>
  /\ pc = "done"
  /\ Len(calls) = 4
  /\ calls[1].op = "exists" /\ calls[1].result = "absent"
  /\ calls[2].op = "configure" /\ calls[3].op = "build"
  /\ calls[4].op = "launch" /\ calls[4].args = << >>

\* the kind table of the specification: the driver of each kind and the
\* profiles it works on, in order
KindDriver(kind) ==
  CASE kind \in {"clean", "clean-debug", "clean-profile", "clean-release",
                 "clean-all"}                                   -> "clean"
    [] kind \in {"build", "debug", "profile", "release", "build-all"} -> "build"
    [] kind \in {"run-debug", "run-profile", "run-release"}     -> "run"

KindProfiles(kind) ==
  CASE kind \in {"clean", "clean-debug", "build", "debug", "run-debug"} -> <<"debug">>
    [] kind \in {"clean-profile", "profile", "run-profile"}     -> <<"profile">>
    [] kind \in {"clean-release", "release", "run-release"}     -> <<"release">>
    [] kind \in {"clean-all", "build-all"}     -> <<"debug", "profile", "release">>

\* the calls a clean or build kind makes when nothing fatal happens
KindPlan(kind) ==
  LET ps == KindProfiles(kind) IN
  IF KindDriver(kind) = "clean"
  THEN [n \in 1..Len(ps) |-> [op |-> "remove", profile |-> ps[n]]]
  ELSE [n \in 1..(2 * Len(ps)) |->
          [op      |-> IF n % 2 = 1 THEN "configure" ELSE "build",
           profile |-> ps[(n + 1) \div 2]]]

\* the calls of the action that has just returned, against the kind table
KindTable ==
  /\ Name("run") = "run-debug"
  /\ Name("run-debug") = "run-debug"
  /\ (pc = "execute_actions" /\ ai >= 1) =>
       LET kind == Name(actions[ai])
           own  == CallsOf(ai)
       IN  IF KindDriver(kind) = "run"
           THEN /\ Len(own) >= 2
                /\ \A n \in DOMAIN own : own[n].profile = KindProfiles(kind)[1]
                /\ own[1].op = "exists"
                /\ own[Len(own)].op = "launch"
                /\ own[Len(own)].args = execution_params[actions[ai]]
                /\ \A n \in 1..(Len(own) - 1) : own[n].op # "launch"
           ELSE /\ Len(own) = Len(KindPlan(kind))
                /\ \A n \in DOMAIN own :
                     /\ own[n].op = KindPlan(kind)[n].op
                     /\ own[n].profile = KindPlan(kind)[n].profile

\* C13: an action whose execute() has just returned has made exactly the
\* calls the kind table gives for its kind: the removals or the configure
\* and build pairs of its profiles in order, or, for a run kind, the test
\* and the launch of its one profile with the action's own parameters; the
\* tokens run and run-debug both give the kind run-debug.
C13_KindTable == [] KindTable

C13_Witness ==
  /\ pc = "done"
  /\ commands = <<"clean-profile", "release", "run-profile">>
  /\ Len(calls) = 5
  /\ calls[1].profile = "profile"
  /\ calls[3].profile = "release"
  /\ calls[5].op = "launch" /\ calls[5].profile = "profile"

\* the tokens looked up as commands that are keys of action_map, in order
CommandTokens(cmds) ==
  LET last == IF FirstRun(cmds) <= Len(cmds) THEN FirstRun(cmds) ELSE Len(cmds)
  IN  SelectSeq(SubSeq(cmds, 1, last), LAMBDA t : t \in ActionMapKeys)

\* position of the first element of seq equal to t
FirstAt(seq, t) ==
  CHOOSE n \in DOMAIN seq :
    seq[n] = t /\ \A m \in 1..(n - 1) : seq[m] # t

\* C14: the returned list is the sequence of command tokens restricted to
\* the actions that survive, in input order; so of two surviving actions the
\* one named first in the input comes first in the list.
C14_OrderPreserved ==
  JustReturned =>
    /\ actions = SelectSeq(CommandTokens(commands),
                           LAMBDA t : t \in Range(actions))
    /\ \A k1, k2 \in Range(actions) :
         FirstAt(commands, k1) < FirstAt(commands, k2)
         => FirstAt(actions, k1) < FirstAt(actions, k2)

C14_Witness ==
  /\ JustReturned
  /\ commands = <<"clean", "clean-all", "build">>
  /\ actions = <<"clean-all", "build">>

\* a run action of the list is its last element
RunIsLast ==
  \A n \in DOMAIN actions : actions[n] \in RunKeys => n = Len(actions)

\* once run-mode is set it stays set, and the scan appends no action
RunModeKept ==
  run_action_found =>
    /\ run_action_found'
    /\ (pc = "parse_actions" /\ pc' = "parse_actions") => actions' = actions

\* C15: run-mode, once entered, is never left and no action is appended
\* while it is set; so the list holds at most one run action, and that
\* action is its last element.
C15_RunTerminal == [] RunIsLast /\ [][RunModeKept]_vars

C15_Witness ==
  /\ JustReturned
  /\ commands = <<"clean", "run-profile", "build">>
  /\ actions = <<"clean", "run-profile">>
  /\ run_action_found

\* token t stands in command position somewhere in cmds
NamedAsCommand(cmds, t) ==
  \E j \in DOMAIN cmds : cmds[j] = t /\ CommandPosition(cmds, j)

\* the actions the two umbrellas named in cmds are allowed to remove
Subsumed(cmds, k) ==
  \/ NamedAsCommand(cmds, "clean-all") /\ Name(k) \in CleanTokens
  \/ NamedAsCommand(cmds, "build-all") /\ Name(k) = "build"

\* the step from the scanned list to the returned list
PostPassFrame ==
  (pc = "parse_actions" /\ pc' = "execute_actions") =>
    /\ actions' = SelectSeq(actions, LAMBDA k : ~Subsumed(commands, k))
    /\ execution_params' = execution_params

\* C16: the post-pass turns the scanned list into the returned list by
\* removing the clean, clean-debug, clean-profile and clean-release actions
\* when clean-all was named as a command, and the build action when
\* build-all was named as a command, and nothing else; with neither umbrella
\* named it removes nothing.
C16_PostPassFrame == [][PostPassFrame]_vars

C16_Witness ==
  /\ JustReturned
  /\ commands = <<"debug", "build", "build-all">>
  /\ actions = <<"debug", "build-all">>
  /\ build_all_found /\ ~clean_all_found

\* the pairing of configure and build calls made so far
ConfigureBeforeBuild ==
  \A n \in DOMAIN calls :
    /\ calls[n].op = "build" =>
         /\ n > 1
         /\ calls[n - 1].op = "configure"
         /\ calls[n - 1].result = "ok"
         /\ SameRun(n - 1, n)
    /\ (calls[n].op = "configure" /\ calls[n].result = "ok") =>
         IF n = Len(calls)
         THEN pc = "build"
         ELSE calls[n + 1].op = "build" /\ SameRun(n, n + 1)
    /\ (calls[n].op = "configure" /\ calls[n].result # "ok") =>
         /\ n = Len(calls)
         /\ pc = "exited"

\* C17: every call of the build driver comes right after a successful
\* configure of the same profile by the same action; a successful configure
\* is followed by that build; a failed configure is the last call made, so
\* there is no build after it and no second configure.
C17_ConfigureBeforeBuild == [] ConfigureBeforeBuild

C17_Witness ==
  /\ commands = <<"release", "profile">>
  /\ pc = "exited"
  /\ Len(calls) = 3
  /\ calls[2].op = "build" /\ calls[2].profile = "release"
  /\ calls[3].op = "configure" /\ calls[3].profile = "profile"
  /\ calls[3].result = "CalledProcessError"

\* a step of clean_directory hands control on in the same way whatever the
\* removal did: to the next clean of the same action, or back to the loop
CleanStepContinues ==
  pc = "clean_directory" =>
    /\ Len(calls') = Len(calls) + 1
    /\ calls'[Len(calls')].op = "remove"
    /\ ai' = ai
    /\ exit_status' = exit_status
    /\ IF fi < Len(Body(actions[ai]))
       THEN pc' = "clean_directory" /\ fi' = fi + 1
       ELSE pc' = "execute_actions"

\* the loop of execute_actions ended by itself only after the whole list
QueueExhausted == pc = "done" => Len(executed) = Len(actions)

\* the process exited inside an action only on a failed configure, build
\* or launch, never on a removal
ExitOnlyOnFatal ==
  (pc = "exited" /\ ai > 0) =>
    /\ calls[Len(calls)].op \in FatalOps
    /\ calls[Len(calls)].result # "ok"

\* C18: a removal that fails aborts nothing: the clean step continues as it
\* does after a successful removal, the process never exits on a removal,
\* and the loop still reaches every action queued after the clean action.
C18_CleanFailureNotFatal ==
  /\ [][CleanStepContinues]_vars
  /\ [] QueueExhausted
  /\ [] ExitOnlyOnFatal

C18_Witness ==
  /\ commands = <<"clean-debug", "build">>
  /\ pc = "done"
  /\ executed = <<1, 2>>
  /\ Len(calls) = 3
  /\ calls[1].op = "remove" /\ calls[1].result = "Exception"
  /\ calls[2].op = "configure" /\ calls[2].action = 2
  /\ calls[3].op = "build" /\ calls[3].result = "ok"

\* C20: at every step of the scan, run-mode set means the list is not
\* empty and ends with a run action; the append of a parameter therefore
\* never fails, parameters are only ever held by the run action the list
\* ends with, and no other action carries execution parameters.
C20_RunModeHasRunAction ==
  /\ run_action_found =>
       /\ Len(actions) > 0
       /\ actions[Len(actions)] \in RunKeys
  /\ ~ParseError
  /\ DOMAIN execution_params = RunKeys
  /\ \A k \in RunKeys :
       execution_params[k] # << >> =>
         /\ run_action_found
         /\ actions[Len(actions)] = k

C20_Witness ==
  /\ pc = "parse_actions"
  /\ commands = <<"build", "run", "clean">>
  /\ idx = 3
  /\ run_action_found
  /\ actions = <<"build", "run">>
  /\ execution_params["run"] = <<"clean">>

\* ------------------------------------------------------------- ActionMan.py
\* ActionMan.py is a second command line over the same three profiles:
\* `<command> [options...]` with the commands clean, build, run and help.
\* Its model uses commands, pc, ai, calls, output and exit_status; ai is the
\* position in the iteration over CMAKE_CONFIG (0 outside an iteration).

\* the keys of CMAKE_CONFIG, in insertion order
AmConfigKeys == <<"debug", "profile", "release">>

\* argv tokens argparse takes as positionals
AmTokens ==
  {"clean", "build", "run", "help", "BUILD",
   "debug", "profile", "release", "all", "Debug", "bogus"}

AmTokenSeqs == UNION {[1..n -> AmTokens] : n \in 0..MaxLen}

\* str.lower() on the tokens of AmTokens
AmLower(t) ==
  CASE t = "BUILD" -> "build"
    [] t = "Debug" -> "debug"
    [] OTHER       -> t

\* parsed_args.command.lower(): the first token, "help" when there is none
AmCommand == IF Len(commands) = 0 THEN "help" ELSE AmLower(commands[1])

\* parsed_args.options: the tokens after the first
AmOptions == IF Len(commands) = 0 THEN << >> ELSE Tail(commands)

\* variant: any identifier is taken for a key of CMAKE_CONFIG
AmKnownAny(build_type) == TRUE

\* build_type in CMAKE_CONFIG; CMAKE_CONFIG[build_type] raises KeyError otherwise
AmKnown(build_type) == \E n \in DOMAIN AmConfigKeys : AmConfigKeys[n] = build_type

\* build_type = options[0] if options else <default of the command>
AmRequested ==
  IF Len(AmOptions) > 0 THEN AmOptions[1]
  ELSE IF AmCommand = "clean" THEN "all" ELSE "debug"

\* the command iterates over CMAKE_CONFIG: clean all, build all
AmIterates == AmCommand \in {"clean", "build"} /\ AmRequested = "all"

\* the build_type the driver in progress was called with
AmBuildType == IF AmIterates THEN AmConfigKeys[ai] ELSE AmRequested

\* execution_params = options[1:] if len(options) > 1 else []
AmExecutionParams == IF Len(AmOptions) > 1 THEN Tail(AmOptions) ELSE << >>

AmCall(op, r, args) ==
  [op |-> op, profile |-> AmBuildType, result |-> r, action |-> 0, args |-> args]

AmLine(text, about) == [text |-> text, about |-> about, action |-> 0]

amFrame == <<commands, idx, parseVars, fi, executed>>

InitActionMan ==
  /\ commands \in AmTokenSeqs
  /\ pc = "am_start"
  /\ idx = 0
  /\ actions = ParseStart.actions
  /\ execution_params = ParseStart.execution_params
  /\ run_action_found = ParseStart.run_action_found
  /\ clean_all_found = ParseStart.clean_all_found
  /\ build_all_found = ParseStart.build_all_found
  /\ ai = 0
  /\ fi = 0
  /\ calls = << >>
  /\ executed = << >>
  /\ output = << >>
  /\ exit_status = -1

\* the script returns from CommandParser.execute: exit status 0
AmReturn ==
  /\ pc' = "done"
  /\ exit_status' = 0

\* sys.exit(1)
AmExit ==
  /\ pc' = "exited"
  /\ exit_status' = 1

\* CommandParser.execute: the dispatch on the command
AmExecute ==
  /\ pc = "am_start"
  /\ CASE AmCommand = "help" ->
            /\ output' = Append(output, AmLine("Usage", None))
            /\ AmReturn
            /\ UNCHANGED ai
       [] AmCommand = "clean" ->
            IF AmRequested = "all" \/ AmKnown(AmRequested)
            THEN /\ pc' = "am_clean"
                 /\ ai' = IF AmRequested = "all" THEN 1 ELSE 0
                 /\ UNCHANGED <<output, exit_status>>
            ELSE /\ output' = Append(output, AmLine("Invalid build type", AmRequested))
                 /\ AmReturn
                 /\ UNCHANGED ai
       [] AmCommand = "build" ->
            /\ pc' = "am_configure"
            /\ ai' = IF AmRequested = "all" THEN 1 ELSE 0
            /\ UNCHANGED <<output, exit_status>>
       [] AmCommand = "run" ->
            /\ pc' = "am_run"
            /\ UNCHANGED <<ai, output, exit_status>>
       [] OTHER ->
            /\ output' = output \o <<AmLine("Unknown command", AmCommand),
                                     AmLine("Usage", None)>>
            /\ AmReturn
            /\ UNCHANGED ai
  /\ UNCHANGED <<amFrame, calls>>

\* the iteration `for ... in CMAKE_CONFIG` goes on to the next key, or the
\* command is over
AmNextKey(again) ==
  IF AmIterates /\ ai < Len(AmConfigKeys)
  THEN /\ ai' = ai + 1
       /\ pc' = again
       /\ UNCHANGED exit_status
  ELSE /\ AmReturn
       /\ UNCHANGED ai

\* clean_directory(CMAKE_CONFIG[...]["dir"]), from clean
AmClean ==
  /\ pc = "am_clean"
  /\ \E r \in RemoveResults :
       /\ r # "ok" => RemoveFailures < MaxRemoveFailures
       /\ calls' = Append(calls, AmCall("remove", r, << >>))
       /\ output' = Append(output,
            AmLine(IF r = "ok" THEN "Cleaned" ELSE Diagnostic("remove", r),
                   AmBuildType))
  /\ AmNextKey("am_clean")
  /\ UNCHANGED amFrame

\* configure(build_type, flags), called first by build
AmConfigure ==
  /\ pc = "am_configure"
  /\ IF ~AmKnown(AmBuildType)
     THEN /\ output' = Append(output, AmLine("Invalid build type", AmBuildType))
          /\ AmExit
          /\ UNCHANGED calls
     ELSE \E r \in ProcessResults :
            /\ calls' = Append(calls, AmCall("configure", r, << >>))
            /\ IF r = "ok"
               THEN /\ pc' = "am_build"
                    /\ UNCHANGED <<output, exit_status>>
               ELSE /\ output' = Append(output,
                         AmLine(Diagnostic("configure", r), AmBuildType))
                    /\ AmExit
  /\ UNCHANGED <<amFrame, ai>>

\* the cmake --build half of build(build_type, flags)
AmBuild ==
  /\ pc = "am_build"
  /\ \E r \in ProcessResults :
       /\ calls' = Append(calls, AmCall("build", r, << >>))
       /\ IF r = "ok"
          THEN /\ UNCHANGED output
               /\ IF AmCommand = "run"
                  THEN /\ pc' = "am_launch"
                       /\ UNCHANGED <<ai, exit_status>>
                  ELSE AmNextKey("am_configure")
          ELSE /\ output' = Append(output,
                    AmLine(Diagnostic("build", r), AmBuildType))
               /\ AmExit
               /\ UNCHANGED ai
  /\ UNCHANGED amFrame

\* run(build_type, execution_params) up to the existence test
AmRun ==
  /\ pc = "am_run"
  /\ IF ~AmKnown(AmBuildType)
     THEN /\ output' = Append(output, AmLine("Invalid build type", AmBuildType))
          /\ AmExit
          /\ UNCHANGED calls
     ELSE \E present \in BOOLEAN :
            /\ calls' = Append(calls,
                 AmCall("exists", IF present THEN "ok" ELSE "absent", << >>))
            /\ pc' = IF present THEN "am_launch" ELSE "am_configure"
            /\ output' = IF present THEN output
                         ELSE Append(output,
                                AmLine(Diagnostic("exists", "absent"), AmBuildType))
            /\ UNCHANGED exit_status
  /\ UNCHANGED <<amFrame, ai>>

\* run(build_type, execution_params): the launch of the executable
AmLaunch ==
  /\ pc = "am_launch"
  /\ \E r \in ProcessResults :
       /\ calls' = Append(calls, AmCall("launch", r, AmExecutionParams))
       /\ IF r = "ok"
          THEN /\ AmReturn
               /\ UNCHANGED output
          ELSE /\ output' = Append(output,
                    AmLine(Diagnostic("launch", r), AmBuildType))
               /\ AmExit
  /\ UNCHANGED <<amFrame, ai>>

NextActionMan ==
  \/ AmExecute
  \/ AmClean
  \/ AmConfigure
  \/ AmBuild
  \/ AmRun
  \/ AmLaunch

SpecActionMan == InitActionMan /\ [][NextActionMan]_vars

\* the invocation names a profile identifier that is not a key of CMAKE_CONFIG
\* (and, for clean and build, is not the word all)
UnknownIdentifier ==
  /\ AmCommand \in {"clean", "build", "run"}
  /\ ~(\E n \in DOMAIN AmConfigKeys : AmConfigKeys[n] = AmRequested)
  /\ AmCommand \in {"clean", "build"} => AmRequested # "all"

\* C19: in ActionMan.py configure, build and run with a profile identifier
\* outside {debug, profile, release} end the tool with exit status 1 before
\* any directory is created and any external process is invoked, and clean
\* with an identifier that is neither a known profile nor all removes no
\* directory; no driver step is ever made for an identifier outside the three.
C19_UnknownProfileGuarded ==
  /\ \A n \in DOMAIN calls : calls[n].profile \in {"debug", "profile", "release"}
  /\ UnknownIdentifier =>
       /\ calls = << >>
       /\ pc \notin {"am_clean", "am_build", "am_launch"}
       /\ AmCommand \in {"build", "run"} =>
            /\ pc # "done"
            /\ exit_status # 0
            /\ pc = "exited" =>
                 /\ exit_status = 1
                 /\ output = <<AmLine("Invalid build type", AmRequested)>>
       /\ AmCommand = "clean" /\ pc # "am_start" =>
            /\ pc = "done"
            /\ output = <<AmLine("Invalid build type", AmRequested)>>

\* `build Debug`: configure refuses the identifier, nothing was created or run
C19_Witness ==
  /\ commands = <<"build", "Debug">>
  /\ pc = "exited"
  /\ exit_status = 1
  /\ calls = << >>

====
